---- MODULE Spec2Model ----
(***************************************************************************)
(* The vector database of src/src/vectordb/vectordb.py: the VectorDBEntry  *)
(* and VectorDB data model, JSON persistence (to_dict, save_to_json,       *)
(* load_from_json, _json_serializer), semantic_search, and the             *)
(* VectorDBGenerator build pipeline.                                       *)
(*                                                                         *)
(* Python values are modelled with their run-time class as a tag, because  *)
(* the code's behaviour depends on it (isinstance checks, the custom JSON  *)
(* serializer, subscripting a list with a string).  An exception raised by *)
(* an operation is the "status" of its outcome; "ok" is a normal return.   *)
(***************************************************************************)
EXTENDS Integers, Sequences, FiniteSets, TLC

\* ------------------------------------------------------------------ bounds
MaxCorpora == 2   \* corpora in a store
MaxRecords == 2   \* file records in a corpus
MaxEntries == 2   \* documents in a file record
MaxWords   == 2   \* words in a document's text
MaxTopK    == 2   \* largest top_k passed to semantic_search
MaxMinLen  == 2   \* largest min_results_length passed to semantic_search

VARIABLES
    store,    \* VectorDB.entries of the VectorDB the caller holds
    fs,       \* the file system: path name -> file
    result    \* outcome of the last operation: its arguments, status and value

vars == <<store, fs, result>>

\* ------------------------------------------------------------------- text
\* A str is a sequence of one-character strings.
IsSpace(c) == c \in {" ", "\n", "\r", "\t"}

\* len(text.split()): the number of maximal runs of non-whitespace.
SplitLen(text) ==
    Cardinality({i \in 1..Len(text) :
        ~IsSpace(text[i]) /\ (i = 1 \/ IsSpace(text[i-1]))})

\* n copies of the word ch, separated by single spaces.
RECURSIVE Words(_, _)
Words(n, ch) ==
    IF n <= 0 THEN <<>>
    ELSE IF n = 1 THEN <<ch>>
    ELSE <<ch, " ">> \o Words(n - 1, ch)

\* ---------------------------------------------------------------- encoder
\* encoder.encode(text): a deterministic embedding of fixed dimension 2, here
\* the counts of the letters a and b.
CountOf(text, ch) == Cardinality({i \in 1..Len(text) : text[i] = ch})

encode(text) == <<CountOf(text, "a"), CountOf(text, "b")>>

\* util.dot_score of two embeddings.
dot_score(u, v) == u[1] * v[1] + u[2] * v[2]

\* str.strip(): without leading and trailing whitespace.
RECURSIVE LStrip(_)
LStrip(text) ==
    IF text # <<>> /\ (IsSpace(Head(text)) \/ Head(text) = "nbsp")
    THEN LStrip(Tail(text)) ELSE text

RECURSIVE RStrip(_)
RStrip(text) ==
    IF text # <<>> /\ (IsSpace(text[Len(text)]) \/ text[Len(text)] = "nbsp")
    THEN RStrip(SubSeq(text, 1, Len(text) - 1)) ELSE text

Strip(text) == RStrip(LStrip(text))

\* re.sub("[S]", rep, text) for a set S of characters and one character rep.
SubChars(text, S, rep) ==
    [i \in 1..Len(text) |-> IF text[i] \in S THEN rep ELSE text[i]]

\* re.sub("[S]+", rep, text): every maximal run of characters of S becomes the
\* string rep.
RECURSIVE SubRuns(_, _, _)
SubRuns(text, S, rep) ==
    IF text = <<>> THEN <<>>
    ELSE IF Head(text) \in S
    THEN IF Len(text) > 1 /\ text[2] \in S
         THEN SubRuns(Tail(text), S, rep)
         ELSE rep \o SubRuns(Tail(text), S, rep)
    ELSE <<Head(text)>> \o SubRuns(Tail(text), S, rep)

StartsWith(text, prefix) ==
    Len(text) >= Len(prefix) /\ SubSeq(text, 1, Len(prefix)) = prefix

\* re.sub("(&\\\\#x27;|&#x27;)", "'", text): the pattern matches the six
\* characters &#x27; and the seven characters &\#x27; .
RECURSIVE SubEntity(_)
SubEntity(text) ==
    IF text = <<>> THEN <<>>
    ELSE IF StartsWith(text, <<"&", "\\", "#", "x", "2", "7", ";">>)
    THEN <<"'">> \o SubEntity(SubSeq(text, 8, Len(text)))
    ELSE IF StartsWith(text, <<"&", "#", "x", "2", "7", ";">>)
    THEN <<"'">> \o SubEntity(SubSeq(text, 7, Len(text)))
    ELSE <<Head(text)>> \o SubEntity(Tail(text))

\* str.lower() on the letters of the model.
Lower(text) ==
    [i \in 1..Len(text) |->
        IF text[i] = "A" THEN "a" ELSE IF text[i] = "B" THEN "b" ELSE text[i]]

\* extraction.preprocess_text.  The characters ' " of a typographic quote are
\* "lsq", "rsq", "ldq", "rdq"; "nbsp" is \xa0.
preprocess_text(text, encoding, lowercase, remove_newlines) ==
    LET t1 == SubChars(text, {"lsq", "rsq"}, "'")
        t2 == SubChars(t1, {"ldq", "rdq"}, "\"")
        t3 == IF encoding THEN SubEntity(t2) ELSE t2
        t4 == IF remove_newlines THEN SubRuns(t3, {"\n", "\r"}, <<" ">>) ELSE t3
        t5 == SubRuns(t4, {"\t", "nbsp"}, <<" ">>)
        t6 == SubRuns(t5, {"\\"}, <<>>)
        t7 == Strip(SubRuns(t6, {" ", "\n", "\r", "\t", "nbsp"}, <<" ">>))
    IN  IF lowercase THEN Lower(t7) ELSE t7

\* ------------------------------------------------------------- data model
\* langchain Document(page_content=..., metadata={page, embedding, doc_uuid}),
\* as _generate_vectordb_entry builds it.  embKind is the class of the
\* embedding: "tensor" (encode(..., convert_to_tensor=True)) or "list".
\* uuid.uuid5(NAMESPACE_DNS, name) is a function of name alone.
Document(page_content, page_num, embKind) ==
    [ kind         |-> "Document",
      page_content |-> page_content,
      page         |-> page_num,
      embedding    |-> [kind |-> embKind, vec |-> encode(page_content)],
      doc_uuid     |-> [kind |-> "UUID", name |-> page_content] ]

\* VectorDBEntry.__init__: documents must be a list.  corpus_name is a str in
\* every call the model makes (a JSON key, or a name drawn from CorpusNames).
VectorDBEntry(corpus_name, documents) ==
    IF documents.t # "list"
    THEN [status |-> "ValueError", entry |-> [corpus_name |-> corpus_name, documents |-> documents]]
    ELSE [status |-> "ok", entry |-> [corpus_name |-> corpus_name, documents |-> documents]]

\* VectorDB.__init__: entries is a list of VectorDBEntry objects; the model
\* only ever passes such a list.
VectorDB(entries) == [status |-> "ok", entries |-> entries]

\* ---------------------------------------------------------- sample stores
\* Stores the constructors accept: nc corpora, each with nr file records of ne
\* documents.  The text of a document depends on its position, so that word
\* counts and scores differ within a corpus and repeat (equal scores).
\* flavour "tensor": embeddings are tensors and sources are str, as build
\* makes them; flavour "list": embeddings are lists of floats and sources are
\* Path objects.
CorpusNames == <<"A", "B", "C", "D">>
Stems == <<"f1", "f2", "f3", "f4">>

SampleText(c, j) ==
    Words(((j + c) % MaxWords) + 1, IF j % 2 = 0 THEN "a" ELSE "b")

SampleRecord(flavour, c, r, ne) ==
    [ source   |-> [kind |-> IF flavour = "list" THEN "Path" ELSE "str", stem |-> Stems[r]],
      contents |-> [e \in 1..ne |->
                       Document(SampleText(c, (r - 1) * ne + e - 1), e, flavour)] ]

SampleEntry(flavour, c, name, nr, ne) ==
    VectorDBEntry(name,
        [t |-> "list", items |-> [r \in 1..nr |-> SampleRecord(flavour, c, r, ne)]]).entry

SampleStores ==
    { VectorDB([c \in 1..nc |->
          SampleEntry(flavour, c, IF dup THEN CorpusNames[1] ELSE CorpusNames[c], nr, ne)]).entries :
        nc \in 0..MaxCorpora, nr \in 0..MaxRecords, ne \in 0..MaxEntries,
        flavour \in {"tensor", "list"}, dup \in BOOLEAN }

\* ------------------------------------------------------------ persistence
PathNames == {"db.json"}

\* A file_path argument: a str naming a file, or an object that is no str.
PathArgs == [isStr : BOOLEAN, name : PathNames]

MissingFile   == [kind |-> "missing",   data |-> [t |-> "none", items |-> <<>>]]
MalformedFile == [kind |-> "malformed", data |-> [t |-> "none", items |-> <<>>]]
JsonFile(data) == [kind |-> "json", data |-> data]

\* VectorDB.to_dict: one single-key mapping {corpus_name: documents} per entry.
to_dict(self) ==
    [i \in 1..Len(self) |->
        [t |-> "dict",
         pairs |-> <<[key |-> self[i].corpus_name, val |-> self[i].documents]>>]]

\* VectorDB._json_serializer, by the class of obj: what it returns, or TypeError.
json_serializer(cls) ==
    IF cls = "Path" THEN [status |-> "ok", kind |-> "str"]
    ELSE IF cls = "Document" THEN [status |-> "ok", kind |-> "dict"]
    ELSE IF cls = "UUID" THEN [status |-> "ok", kind |-> "str"]
    ELSE [status |-> "TypeError", kind |-> cls]

\* json.dump(..., default=_json_serializer) on one object: the JSON encoder
\* writes str, int, float, list and dict itself and calls default otherwise.
JsonEncode(cls) ==
    IF cls \in {"str", "int", "float", "list", "dict"}
    THEN [status |-> "ok", kind |-> cls]
    ELSE json_serializer(cls)

DumpDoc(d) ==
    [ kind         |-> JsonEncode(d.kind).kind,
      page_content |-> d.page_content,
      page         |-> d.page,
      embedding    |-> [kind |-> JsonEncode(d.embedding.kind).kind, vec |-> d.embedding.vec],
      doc_uuid     |-> [kind |-> JsonEncode(d.doc_uuid.kind).kind, name |-> d.doc_uuid.name] ]

DumpRecord(rec) ==
    [ source   |-> [kind |-> JsonEncode(rec.source.kind).kind, stem |-> rec.source.stem],
      contents |-> [e \in 1..Len(rec.contents) |-> DumpDoc(rec.contents[e])] ]

DumpDocs(documents) ==
    [t |-> documents.t,
     items |-> [r \in 1..Len(documents.items) |-> DumpRecord(documents.items[r])]]

DumpItem(item) ==
    [t |-> item.t,
     pairs |-> [k \in 1..Len(item.pairs) |->
                  [key |-> item.pairs[k].key, val |-> DumpDocs(item.pairs[k].val)]]]

\* The classes of all objects json.dump meets in data.
ClassesIn(data) ==
    UNION { UNION { UNION { {rec.source.kind} \cup
                UNION { {d.kind, d.embedding.kind, d.doc_uuid.kind} :
                        d \in {rec.contents[e] : e \in 1..Len(rec.contents)} } :
              rec \in {data[i].pairs[k].val.items[r] :
                        r \in 1..Len(data[i].pairs[k].val.items)} } :
            k \in 1..Len(data[i].pairs) } :
          i \in 1..Len(data) }

\* json.dump(data, f, default=self._json_serializer, indent=4): the document
\* written, or the TypeError of the first object the serializer rejects.
json_dump(data) ==
    IF \E cls \in ClassesIn(data) : JsonEncode(cls).status # "ok"
    THEN [status |-> "TypeError", data |-> [t |-> "none", items |-> <<>>]]
    ELSE [status |-> "ok",
          data |-> [t |-> "list", items |-> [i \in 1..Len(data) |-> DumpItem(data[i])]]]

\* VectorDB.save_to_json.  open(file_path, "w") creates or truncates the file
\* before json.dump runs, and json.dump writes as it encodes: when it raises,
\* the file is left holding an unfinished document.
save_to_json(self, file_path, files) ==
    IF ~file_path.isStr
    THEN [status |-> "ValueError", fs |-> files]
    ELSE LET out == json_dump(to_dict(self))
         IN  IF out.status = "ok"
             THEN [status |-> "ok",
                   fs |-> [files EXCEPT ![file_path.name] = JsonFile(out.data)]]
             ELSE [status |-> out.status,
                   fs |-> [files EXCEPT ![file_path.name] = MalformedFile]]

\* The list comprehension of load_from_json over data's items i..n, the
\* entries built so far in acc: the first item that raises ends it.
RECURSIVE LoadItems(_, _, _)
LoadItems(items, i, acc) ==
    IF i > Len(items) THEN VectorDB(acc)
    ELSE LET item == items[i]
         IN  IF item.t # "dict"
             THEN [status |-> "AttributeError", entries |-> <<>>]   \* item.keys()
             ELSE IF Len(item.pairs) = 0
             THEN [status |-> "IndexError", entries |-> <<>>]       \* list(...)[0]
             ELSE LET made == VectorDBEntry(item.pairs[1].key, item.pairs[1].val)
                  IN  IF made.status # "ok"
                      THEN [status |-> made.status, entries |-> <<>>]
                      ELSE LoadItems(items, i + 1, Append(acc, made.entry))

\* VectorDB.load_from_json.
load_from_json(file_path, files) ==
    IF ~file_path.isStr
    THEN [status |-> "ValueError", entries |-> <<>>]
    ELSE IF files[file_path.name].kind = "missing"
    THEN [status |-> "FileNotFoundError", entries |-> <<>>]
    ELSE IF files[file_path.name].kind = "malformed"
    THEN [status |-> "JSONDecodeError", entries |-> <<>>]           \* json.load
    ELSE LET data == files[file_path.name].data
         IN  IF data.t = "list" THEN LoadItems(data.items, 1, <<>>)
             ELSE IF data.t = "dict"
             \* iterating a mapping yields its keys, which are str
             THEN IF Len(data.items) = 0 THEN VectorDB(<<>>)
                  ELSE [status |-> "AttributeError", entries |-> <<>>]
             ELSE [status |-> "TypeError", entries |-> <<>>]        \* not iterable

\* Files a caller may hand to load_from_json that save_to_json did not write.
EmptyDocs == [t |-> "list", items |-> <<>>]
NumberDocs == [t |-> "int", items |-> <<>>]
SampleFiles ==
    { MissingFile,
      MalformedFile,
      \* [{}]
      JsonFile([t |-> "list", items |-> <<[t |-> "dict", pairs |-> <<>>]>>]),
      \* [5]
      JsonFile([t |-> "list", items |-> <<[t |-> "int", pairs |-> <<>>]>>]),
      \* [{"A": 5}]
      JsonFile([t |-> "list", items |->
          <<[t |-> "dict", pairs |-> <<[key |-> "A", val |-> NumberDocs]>>]>>]),
      \* [{"A": [], "B": []}]
      JsonFile([t |-> "list", items |->
          <<[t |-> "dict", pairs |-> <<[key |-> "A", val |-> EmptyDocs],
                                       [key |-> "B", val |-> EmptyDocs]>>]>>]),
      \* {}
      JsonFile([t |-> "dict", items |-> <<>>]),
      \* {"A": []}
      JsonFile([t |-> "dict", items |->
          <<[t |-> "dict", pairs |-> <<[key |-> "A", val |-> EmptyDocs]>>]>>]),
      \* 5
      JsonFile([t |-> "int", items |-> <<>>]) }

\* --------------------------------------------------------- semantic search
Min(a, b) == IF a < b THEN a ELSE b

\* A query argument: a str, or an object that is no str.
QueryTexts == {<<>>, <<"a">>, <<"b">>}
QueryArgs == [isStr : {TRUE}, text : QueryTexts] \cup {[isStr |-> FALSE, text |-> <<>>]}

\* util.semantic_search(query_embeddings, corpus_embeddings, top_k,
\* score_function=util.dot_score)[0], then sorted(hits, key=score,
\* reverse=True): the min(top_k, n) best candidates by full ranking, best
\* first, equal scores in candidate order.  corpus_id counts from 1 here.
util_semantic_search(query_embedding, corpus_embeddings, top_k) ==
    LET n == Len(corpus_embeddings)
        score(i) == dot_score(query_embedding, corpus_embeddings[i])
        rank(i) == 1 + Cardinality({j \in 1..n :
                        score(j) > score(i) \/ (score(j) = score(i) /\ j < i)})
        cand(p) == CHOOSE i \in 1..n : rank(i) = p
    IN  [p \in 1..Min(top_k, n) |-> [corpus_id |-> cand(p), score |-> score(cand(p))]]

\* The body of semantic_search's loop for one entry (lines 195-218).
\* entry.documents is a list (VectorDBEntry.__init__ admits nothing else), and
\* subscripting a list with the str "contents" raises TypeError.  The rest is
\* what the body does with a mapping that has a "contents" key: doc["metadata"]
\* needs a mapping (a Document object is not subscriptable) and
\* document.page_content needs a Document object.
EntryResults(entry, query_embedding, top_k, min_results_length) ==
    IF entry.documents.t = "list"
    THEN [status |-> "TypeError", results |-> <<>>]
    ELSE LET contents == entry.documents.items[1].contents
         IN  IF \E e \in 1..Len(contents) : contents[e].kind = "Document"
             THEN [status |-> "TypeError", results |-> <<>>]
             ELSE LET corpus_embeddings ==
                          [e \in 1..Len(contents) |-> contents[e].embedding.vec]
                      hits == util_semantic_search(query_embedding, corpus_embeddings, top_k)
                      kept == SelectSeq(hits, LAMBDA hit :
                                  SplitLen(contents[hit.corpus_id].page_content)
                                      > min_results_length)
                  IN  IF Len(hits) > 0
                      THEN [status |-> "AttributeError", results |-> <<>>]
                      ELSE [status |-> "ok",
                            results |-> [h \in 1..Len(kept) |->
                                [corpus_name |-> entry.corpus_name,
                                 score       |-> kept[h].score,
                                 document    |-> contents[kept[h].corpus_id]]]]

\* SearchEntries reading self.entries[0] instead of iterating: an empty store
\* has no first entry (IndexError), and only the first corpus is searched.
SearchEntries_first_entry(self, i, query_embedding, top_k, min_results_length, acc) ==
    IF Len(self) = 0
    THEN [status |-> "IndexError", results |-> <<>>]
    ELSE EntryResults(self[1], query_embedding, top_k, min_results_length)

\* for entry in self.entries: ..., from entry i on, results so far in acc.
RECURSIVE SearchEntries(_, _, _, _, _, _)
SearchEntries(self, i, query_embedding, top_k, min_results_length, acc) ==
    IF i > Len(self) THEN [status |-> "ok", results |-> acc]
    ELSE LET r == EntryResults(self[i], query_embedding, top_k, min_results_length)
         IN  IF r.status # "ok"
             THEN [status |-> r.status, results |-> <<>>]
             ELSE SearchEntries(self, i + 1, query_embedding, top_k,
                                min_results_length, acc \o r.results)

\* semantic_search without the isinstance(query, str) check.
semantic_search_unchecked_query(self, query, encoderOk, top_k, min_results_length) ==
    IF top_k <= 0
    THEN [status |-> "ValueError", encoded |-> FALSE, results |-> <<>>]
    ELSE IF min_results_length <= 0
    THEN [status |-> "ValueError", encoded |-> FALSE, results |-> <<>>]
    ELSE IF ~encoderOk
    THEN [status |-> "EncoderError", encoded |-> TRUE, results |-> <<>>]
    ELSE LET out == SearchEntries(self, 1, encode(query.text), top_k,
                                  min_results_length, <<>>)
         IN  [status |-> out.status, encoded |-> TRUE, results |-> out.results]

\* semantic_search rejecting only negative top_k and min_results_length.
semantic_search_negative_only(self, query, encoderOk, top_k, min_results_length) ==
    IF ~query.isStr
    THEN [status |-> "ValueError", encoded |-> FALSE, results |-> <<>>]
    ELSE IF top_k < 0
    THEN [status |-> "ValueError", encoded |-> FALSE, results |-> <<>>]
    ELSE IF min_results_length < 0
    THEN [status |-> "ValueError", encoded |-> FALSE, results |-> <<>>]
    ELSE IF ~encoderOk
    THEN [status |-> "EncoderError", encoded |-> TRUE, results |-> <<>>]
    ELSE LET out == SearchEntries(self, 1, encode(query.text), top_k,
                                  min_results_length, <<>>)
         IN  [status |-> out.status, encoded |-> TRUE, results |-> out.results]

\* VectorDB.semantic_search.  top_k and min_results_length are ints in every
\* call the model makes.  encoderOk: whether encoder.encode(query) returns
\* (it may raise); encoded: whether encoder.encode was called.
semantic_search(self, query, encoderOk, top_k, min_results_length) ==
    IF ~query.isStr
    THEN [status |-> "ValueError", encoded |-> FALSE, results |-> <<>>]
    ELSE IF top_k <= 0
    THEN [status |-> "ValueError", encoded |-> FALSE, results |-> <<>>]
    ELSE IF min_results_length <= 0
    THEN [status |-> "ValueError", encoded |-> FALSE, results |-> <<>>]
    ELSE IF ~encoderOk
    THEN [status |-> "EncoderError", encoded |-> TRUE, results |-> <<>>]
    ELSE LET out == SearchEntries(self, 1, encode(query.text), top_k,
                                  min_results_length, <<>>)
         IN  [status |-> out.status, encoded |-> TRUE, results |-> out.results]

\* ------------------------------------------------------------------ build
MaxPaths == 2     \* file paths in one corpus of a build batch
MaxBatch == 2     \* corpora in a build batch

\* The PDF files of the environment: Path.is_file(), whether pymupdf.open
\* returns, and the text of the opened document as pages of text blocks.
\* f1 is a readable two-page PDF, f2 does not exist, f3 exists and is corrupt.
PdfPaths == {"f1", "f2", "f3"}

PdfFile(pdf_path) ==
    IF pdf_path = "f1"
    THEN [is_file |-> TRUE, opens |-> TRUE,
          pages |-> << << Words(2, "a"), <<" ">>, <<"\\">> >>, << <<"b">> >> >>]
    ELSE IF pdf_path = "f2"
    THEN [is_file |-> FALSE, opens |-> FALSE, pages |-> <<>>]
    ELSE [is_file |-> TRUE, opens |-> FALSE, pages |-> <<>>]

\* doc.get_page_text(pno): the blocks of the page, one per line.
RECURSIVE PageText(_)
PageText(blocks) ==
    IF blocks = <<>> THEN <<>>
    ELSE IF Len(blocks) = 1 THEN blocks[1]
    ELSE blocks[1] \o <<"\n">> \o PageText(Tail(blocks))

\* `import tqdm` (line 14) binds the name tqdm to the module, and the code
\* calls tqdm(iterable, ...): calling a module raises TypeError.
tqdm(iterable) == [status |-> "TypeError", iterable |-> <<>>]

\* VectorDBGenerator._generate_vectordb_entry: the contents list afterwards.
\* Any exception (the encoder raises on the texts of self.encoderFails) is
\* caught and logged, and nothing is appended.
generate_vectordb_entry(self, text, contents, page_num, preprocess) ==
    LET processed_text ==
            IF preprocess THEN preprocess_text(text, TRUE, FALSE, TRUE) ELSE text
    IN  IF processed_text \in self.encoderFails
        THEN contents
        ELSE Append(contents, Document(processed_text, page_num, "tensor"))

\* VectorDBGenerator._process_blocks, from block b of page i on.
RECURSIVE process_blocks(_, _, _, _, _, _)
process_blocks(self, pages, i, b, contents, preprocess) ==
    IF i > Len(pages) THEN contents
    ELSE IF b > Len(pages[i])
    THEN process_blocks(self, pages, i + 1, 1, contents, preprocess)
    ELSE LET text == Strip(pages[i][b])
         IN  process_blocks(self, pages, i, b + 1,
                 IF text # <<>>
                 THEN generate_vectordb_entry(self, text, contents, i, preprocess)
                 ELSE contents,
                 preprocess)

\* VectorDBGenerator._process_pages, from page page_num (counted from 0) on.
RECURSIVE process_pages(_, _, _, _, _)
process_pages(self, pages, page_num, contents, preprocess) ==
    IF page_num >= Len(pages) THEN contents
    ELSE LET text == Strip(PageText(pages[page_num + 1]))
         IN  process_pages(self, pages, page_num + 1,
                 IF text # <<>>
                 THEN generate_vectordb_entry(self, text, contents, page_num + 1, preprocess)
                 ELSE contents,
                 preprocess)

\* The loop of _generate_vectordb_from_file over files[i..], docs so far.
RECURSIVE FromFileLoop(_, _, _, _, _)
FromFileLoop(self, files, i, docs, preprocess) ==
    IF i > Len(files) THEN docs
    ELSE LET pdf == PdfFile(files[i])
         IN  IF ~pdf.is_file THEN FromFileLoop(self, files, i + 1, docs, preprocess)
             ELSE IF ~pdf.opens THEN FromFileLoop(self, files, i + 1, docs, preprocess)
             ELSE LET contents ==
                          IF self.resolution = "block"
                          THEN process_blocks(self, pdf.pages, 1, 1, <<>>, preprocess)
                          ELSE process_pages(self, pdf.pages, 0, <<>>, preprocess)
                      filled == [source |-> [kind |-> "str", stem |-> files[i]],
                                 contents |-> contents]
                  IN  FromFileLoop(self, files, i + 1, Append(docs, filled), preprocess)

\* VectorDBGenerator._generate_vectordb_from_file.
generate_vectordb_from_file(self, files, preprocess) ==
    IF files = <<>>
    THEN [status |-> "ValueError", docs |-> <<>>]
    ELSE LET bar == tqdm(files)
         IN  IF bar.status # "ok"
             THEN [status |-> bar.status, docs |-> <<>>]
             ELSE [status |-> "ok",
                   docs |-> FromFileLoop(self, bar.iterable, 1, <<>>, preprocess)]

\* The loops of generate_vectordb: corpus files[i], its item k, entries so far.
RECURSIVE GenerateLoop(_, _, _, _, _)
GenerateLoop(self, files, i, k, vectordb_entries) ==
    IF i > Len(files) THEN VectorDB(vectordb_entries)
    ELSE IF k > Len(files[i])
    THEN GenerateLoop(self, files, i + 1, 1, vectordb_entries)
    ELSE LET temp == generate_vectordb_from_file(self, files[i][k].paths, TRUE)
         IN  IF temp.status # "ok"
             THEN [status |-> temp.status, entries |-> <<>>]
             ELSE LET made == VectorDBEntry(files[i][k].corpus_name,
                                            [t |-> "list", items |-> temp.docs])
                  IN  IF made.status # "ok"
                      THEN [status |-> made.status, entries |-> <<>>]
                      ELSE GenerateLoop(self, files, i, k + 1,
                                        Append(vectordb_entries, made.entry))

\* VectorDBGenerator.generate_vectordb.  files is a list of mappings, each a
\* sequence of items [corpus_name, paths].
generate_vectordb(self, files) ==
    LET bar == tqdm(files)
    IN  IF bar.status # "ok"
        THEN [status |-> bar.status, entries |-> <<>>]
        ELSE GenerateLoop(self, bar.iterable, 1, 1, <<>>)

\* VectorDBGenerator.__init__.  The checks read self.encoder, self.device and
\* self.resolution, which are assigned only after them: on the new object,
\* which has no attributes, the first read raises AttributeError.
VectorDBGenerator(encoder, device, resolution) ==
    LET attributes == {}
        none == [encoder |-> encoder, device |-> "", resolution |-> ""]
    IN  IF "encoder" \notin attributes
        THEN [status |-> "AttributeError", self |-> none]
        ELSE IF encoder.cls # "SentenceTransformer"
        THEN [status |-> "ValueError", self |-> none]
        ELSE IF device \notin {"cpu", "cuda", "mps"}
        THEN [status |-> "ValueError", self |-> none]
        ELSE IF resolution \notin {"block", "page"}
        THEN [status |-> "ValueError", self |-> none]
        ELSE [status |-> "ok",
              self |-> [encoder |-> encoder, device |-> device, resolution |-> resolution]]

\* Encoders: the texts encode raises on, and the class of the object.
Encoders ==
    [cls : {"SentenceTransformer", "str"}, encoderFails : {{}, {<<"b">>}}]

\* Generator objects generate_vectordb is called on.
Generators ==
    [encoderFails : {{}, {<<"b">>}}, device : {"cpu"}, resolution : {"block", "page"}]

SeqsUpTo(S, n) == UNION {[1..k -> S] : k \in 0..n}

\* Build batches: up to MaxBatch single-key mappings {corpus name: paths}.
Batches ==
    { [c \in 1..Len(lists) |-> <<[corpus_name |-> CorpusNames[c], paths |-> lists[c]]>>] :
        lists \in SeqsUpTo(SeqsUpTo(PdfPaths, MaxPaths), MaxBatch) }

\* ---------------------------------------------------------------- actions
NoResult == [op |-> "none", status |-> "ok"]

\* The caller holds a store the constructors accept and no file exists yet, or
\* holds the empty store and a file that save_to_json did not write.
Init ==
    /\ \/ store \in SampleStores /\ fs = [p \in PathNames |-> MissingFile]
       \/ store = <<>> /\ fs \in [PathNames -> SampleFiles]
    /\ result = NoResult

\* store.save_to_json(file_path)
SaveToJson(file_path) ==
    LET out == save_to_json(store, file_path, fs)
    IN  /\ fs' = out.fs
        /\ result' = [op |-> "save", status |-> out.status, file_path |-> file_path]
        /\ UNCHANGED store

\* store = VectorDB.load_from_json(file_path)
LoadFromJson(file_path) ==
    LET out == load_from_json(file_path, fs)
    IN  /\ store' = IF out.status = "ok" THEN out.entries ELSE store
        /\ result' = [op |-> "load", status |-> out.status, file_path |-> file_path]
        /\ UNCHANGED fs

\* store.semantic_search(query, encoder, top_k, min_results_length)
SemanticSearch(query, encoderOk, top_k, min_results_length) ==
    LET out == semantic_search(store, query, encoderOk, top_k, min_results_length)
    IN  /\ result' = [op |-> "search", status |-> out.status, query |-> query,
                      encoderOk |-> encoderOk, top_k |-> top_k,
                      min_results_length |-> min_results_length,
                      encoded |-> out.encoded, results |-> out.results]
        /\ UNCHANGED <<store, fs>>

Next ==
    \/ \E file_path \in PathArgs : SaveToJson(file_path)
    \/ \E file_path \in PathArgs : LoadFromJson(file_path)
    \/ \E query \in QueryArgs, encoderOk \in BOOLEAN,
          top_k \in 0..MaxTopK, min_results_length \in 0..MaxMinLen :
          SemanticSearch(query, encoderOk, top_k, min_results_length)

Spec == Init /\ [][Next]_vars

\* ---------------------------------------------------------- build actions
InitBuild ==
    /\ store = <<>>
    /\ fs = [p \in PathNames |-> MissingFile]
    /\ result = NoResult

\* VectorDBGenerator(encoder, device, resolution)
NewGenerator(encoder, device, resolution) ==
    LET out == VectorDBGenerator(encoder, device, resolution)
    IN  /\ result' = [op |-> "new_generator", status |-> out.status,
                      encoder |-> encoder, device |-> device,
                      resolution |-> resolution, self |-> out.self]
        /\ UNCHANGED <<store, fs>>

\* store = self.generate_vectordb(files)
GenerateVectordb(self, files) ==
    LET out == generate_vectordb(self, files)
    IN  /\ store' = IF out.status = "ok" THEN out.entries ELSE store
        /\ result' = [op |-> "build", status |-> out.status,
                      self |-> self, files |-> files]
        /\ UNCHANGED fs

\* store = {"source": pdf_path.stem, "contents": []};
\* self._process_blocks(pymupdf.open(pdf_path), store, preprocess)
ProcessBlocks(self, pdf_path, preprocess) ==
    /\ PdfFile(pdf_path).is_file
    /\ PdfFile(pdf_path).opens
    /\ result' = [op |-> "process_blocks", status |-> "ok", self |-> self,
                  pdf_path |-> pdf_path, preprocess |-> preprocess,
                  contents |-> process_blocks(self, PdfFile(pdf_path).pages,
                                              1, 1, <<>>, preprocess)]
    /\ UNCHANGED <<store, fs>>

\* store = {"source": pdf_path.stem, "contents": []};
\* self._process_pages(pymupdf.open(pdf_path), store, preprocess)
ProcessPages(self, pdf_path, preprocess) ==
    /\ PdfFile(pdf_path).is_file
    /\ PdfFile(pdf_path).opens
    /\ result' = [op |-> "process_pages", status |-> "ok", self |-> self,
                  pdf_path |-> pdf_path, preprocess |-> preprocess,
                  contents |-> process_pages(self, PdfFile(pdf_path).pages,
                                             0, <<>>, preprocess)]
    /\ UNCHANGED <<store, fs>>

NextBuild ==
    \/ \E encoder \in Encoders, device \in {"cpu", "cuda", "mps", "tpu"},
          resolution \in {"block", "page", "line"} :
          NewGenerator(encoder, device, resolution)
    \/ \E self \in Generators, files \in Batches : GenerateVectordb(self, files)
    \/ \E self \in Generators, pdf_path \in PdfPaths, preprocess \in BOOLEAN :
          ProcessBlocks(self, pdf_path, preprocess)
    \/ \E self \in Generators, pdf_path \in PdfPaths, preprocess \in BOOLEAN :
          ProcessPages(self, pdf_path, preprocess)

SpecBuild == InitBuild /\ [][NextBuild]_vars

\* ----------------------------------------------------------- text actions
MaxPieces == 3    \* pieces an input text of preprocess_text is made of

\* The pieces of the input texts: the entity &#x27; whole and in parts, a
\* backslash, whitespace, a letter and a typographic quote.
TextPieces ==
    { <<"&">>, <<"&", "#">>, <<"#", "x", "2", "7", ";">>, <<"x", "2", "7", ";">>,
      <<"\\">>, <<" ">>, <<"\n">>, <<"A">>, <<"lsq">> }

\* The input texts: up to MaxPieces pieces, concatenated.
RECURSIVE Join(_)
Join(pieces) == IF pieces = <<>> THEN <<>> ELSE Head(pieces) \o Join(Tail(pieces))

Texts == {Join(pieces) : pieces \in SeqsUpTo(TextPieces, MaxPieces)}

\* The caller holds a text and the options it passes with it; out is the
\* text it will pass to the next call.
InitText ==
    /\ store = <<>>
    /\ fs = [p \in PathNames |-> MissingFile]
    /\ \E text \in Texts, encoding \in BOOLEAN, lowercase \in BOOLEAN,
          remove_newlines \in BOOLEAN :
          result = [op |-> "text", status |-> "ok", text |-> text,
                    encoding |-> encoding, lowercase |-> lowercase,
                    remove_newlines |-> remove_newlines, out |-> text]

\* out = preprocess_text(out, encoding, lowercase, remove_newlines): the
\* function applied to the text held, at first the input, then its own output.
PreprocessText ==
    /\ result.op \in {"text", "preprocess_text"}
    /\ result' = [result EXCEPT
                    !.op = "preprocess_text",
                    !.text = result.out,
                    !.out = preprocess_text(result.out, result.encoding,
                                            result.lowercase, result.remove_newlines)]
    /\ UNCHANGED <<store, fs>>

NextText == PreprocessText

SpecText == InitText /\ [][NextText]_vars

\* =================================================================== claims
Range(seq) == {seq[i] : i \in 1..Len(seq)}

\* The entries of all FileRecords of an entry, in record order then entry order.
RECURSIVE FlatFrom(_, _)
FlatFrom(records, r) ==
    IF r > Len(records) THEN <<>>
    ELSE records[r].contents \o FlatFrom(records, r + 1)

Candidates(entry) == FlatFrom(entry.documents.items, 1)

\* The last operation was a semantic_search with valid arguments (a non-empty
\* query string, positive top_k and min_length) whose query the encoder
\* encoded, over a store in which every corpus holds at least one entry.
ValidSearch ==
    /\ result.op = "search"
    /\ result.query.isStr
    /\ result.query.text # <<>>
    /\ result.top_k > 0
    /\ result.min_results_length > 0
    /\ result.encoderOk
    /\ \A c \in 1..Len(store) : Len(Candidates(store[c])) > 0

\* The top_k candidates of one corpus by full ranking, best first, equal
\* scores in candidate order, as results.
Selected(entry, query_embedding, top_k) ==
    LET cands == Candidates(entry)
        hits == util_semantic_search(query_embedding,
                    [e \in 1..Len(cands) |-> cands[e].embedding.vec], top_k)
    IN  [p \in 1..Len(hits) |->
            [corpus_name |-> entry.corpus_name, score |-> hits[p].score,
             document |-> cands[hits[p].corpus_id]]]

ResultsOf(corpus_name) ==
    SelectSeq(result.results, LAMBDA h : h.corpus_name = corpus_name)

DistinctNames(self) ==
    \A i, j \in 1..Len(self) : i # j => self[i].corpus_name # self[j].corpus_name

\* a can be obtained from b by deleting elements.
RECURSIVE IsSubSeq(_, _)
IsSubSeq(a, b) ==
    IF a = <<>> THEN TRUE
    ELSE IF b = <<>> THEN FALSE
    ELSE IF Head(a) = Head(b) THEN IsSubSeq(Tail(a), Tail(b))
    ELSE IsSubSeq(a, Tail(b))

OwnerOf(corpus_name) == CHOOSE c \in 1..Len(store) : store[c].corpus_name = corpus_name

\* C1: a search with valid arguments over a store of FileRecords completes
\* without error, and what it scores for a corpus is the flat concatenation of
\* the entries of the corpus's FileRecords: every result is one of these
\* entries with its dot-product score, and with top_k at least the number of
\* entries, every entry longer than min_length is among the results.
C1_SearchScoresFlatCandidates ==
    ValidSearch =>
        /\ result.status = "ok"
        /\ \A h \in Range(result.results) :
              \E c \in 1..Len(store) :
                  /\ store[c].corpus_name = h.corpus_name
                  /\ h.document \in Range(Candidates(store[c]))
                  /\ h.score = dot_score(encode(result.query.text), h.document.embedding.vec)
        /\ \A c \in 1..Len(store) :
              result.top_k >= Len(Candidates(store[c])) =>
                  \A d \in Range(Candidates(store[c])) :
                      SplitLen(d.page_content) > result.min_results_length =>
                          \E h \in Range(result.results) :
                              h.corpus_name = store[c].corpus_name /\ h.document = d

\* C2: in a store of distinctly named corpora, a valid search returns at most
\* top_k results per corpus name, and the results of one corpus are taken, in
\* order, from that corpus's own top_k ranking: non-increasing scores, equal
\* scores in candidate order.
C2_TopKPerCorpusStable ==
    (ValidSearch /\ DistinctNames(store)) =>
        /\ result.status = "ok"
        /\ \A c \in 1..Len(store) :
              LET mine == ResultsOf(store[c].corpus_name)
              IN  /\ Len(mine) <= result.top_k
                  /\ \A i, j \in 1..Len(mine) : i < j => mine[i].score >= mine[j].score
                  /\ IsSubSeq(mine, Selected(store[c], encode(result.query.text),
                                             result.top_k))

\* C3: in a store of distinctly named corpora, a valid search returns a
\* selected candidate if and only if its text has at least min_length words.
C3_LengthFilterAtLeastMin ==
    (ValidSearch /\ DistinctNames(store)) =>
        /\ result.status = "ok"
        /\ \A h \in Range(result.results) :
              SplitLen(h.document.page_content) >= result.min_results_length
        /\ \A c \in 1..Len(store) :
              ResultsOf(store[c].corpus_name) =
                  SelectSeq(Selected(store[c], encode(result.query.text), result.top_k),
                            LAMBDA h : SplitLen(h.document.page_content)
                                           >= result.min_results_length)

\* C4: in a store of distinctly named corpora, the results of a valid search
\* are grouped by corpus in the store's corpus order, and each result carries
\* the name of the corpus that holds its entry and the score of that entry.
C4_ResultsInCorpusOrder ==
    (ValidSearch /\ DistinctNames(store)) =>
        /\ result.status = "ok"
        /\ \A i \in 1..Len(result.results) :
              LET h == result.results[i]
              IN  /\ \E c \in 1..Len(store) : store[c].corpus_name = h.corpus_name
                  /\ h.document \in Range(Candidates(store[OwnerOf(h.corpus_name)]))
                  /\ h.score = dot_score(encode(result.query.text), h.document.embedding.vec)
                  /\ \A j \in 1..Len(result.results) :
                        i < j => OwnerOf(h.corpus_name) <= OwnerOf(result.results[j].corpus_name)

\* Same corpus names, and per corpus and file record the same entries with
\* equal content, page and identifier, in the same order.
SameEntries(S, L) ==
    /\ Len(L) = Len(S)
    /\ \A c \in 1..Len(S) :
          /\ L[c].corpus_name = S[c].corpus_name
          /\ L[c].documents.t = S[c].documents.t
          /\ Len(L[c].documents.items) = Len(S[c].documents.items)
          /\ \A r \in 1..Len(S[c].documents.items) :
                LET a == S[c].documents.items[r].contents
                    b == L[c].documents.items[r].contents
                IN  /\ Len(b) = Len(a)
                    /\ \A e \in 1..Len(a) :
                          /\ b[e].page_content = a[e].page_content
                          /\ b[e].page = a[e].page
                          /\ b[e].doc_uuid.name = a[e].doc_uuid.name

\* save and semantic_search end on L as they end on S (to_dict never fails).
SameAcceptance(S, L) ==
    /\ \A file_path \in PathArgs :
          save_to_json(L, file_path, fs).status = save_to_json(S, file_path, fs).status
    /\ \A query \in QueryArgs, top_k \in 0..MaxTopK, min_results_length \in 0..MaxMinLen :
          semantic_search(L, query, TRUE, top_k, min_results_length).status
              = semantic_search(S, query, TRUE, top_k, min_results_length).status

\* C5: for any store S, saving S succeeds and loading the file written gives a
\* store with the corpus names of S and the entries of S (content, page and
\* identifier, in order), which save and semantic_search accept as they do S.
C5_LoadOfSaveRestoresStore ==
    (result.op = "save" /\ result.file_path.isStr) =>
        /\ result.status = "ok"
        /\ LET back == load_from_json(result.file_path, fs)
           IN  /\ back.status = "ok"
               /\ SameEntries(store, back.entries)
               /\ SameAcceptance(store, back.entries)

\* C6: save does not fail on a store whose values are embedding vectors,
\* identifiers and paths, and writes one single-key mapping {corpus_name:
\* records} per corpus in store order, every embedding as a list of numbers,
\* every identifier and every path as a string.
C6_SaveWritesJsonPrimitives ==
    (result.op = "save" /\ result.file_path.isStr) =>
        /\ result.status = "ok"
        /\ LET file == fs[result.file_path.name]
           IN  /\ file.kind = "json"
               /\ file.data.t = "list"
               /\ Len(file.data.items) = Len(store)
               /\ \A i \in 1..Len(store) :
                     LET item == file.data.items[i]
                     IN  /\ item.t = "dict"
                         /\ Len(item.pairs) = 1
                         /\ item.pairs[1].key = store[i].corpus_name
                         /\ \A rec \in Range(item.pairs[1].val.items) :
                               /\ rec.source.kind = "str"
                               /\ \A d \in Range(rec.contents) :
                                     /\ d.embedding.kind = "list"
                                     /\ d.doc_uuid.kind = "str"

\* A file that is not a JSON list of mappings, each with a key whose value is
\* a list.
LacksStructure(file) ==
    \/ file.kind = "malformed"
    \/ /\ file.kind = "json"
       /\ \/ file.data.t # "list"
          \/ \E item \in Range(file.data.items) :
                \/ item.t # "dict"
                \/ Len(item.pairs) = 0
                \/ item.pairs[1].val.t # "list"

\* The format error: ValueError, the one error load_from_json's docstring
\* names besides FileNotFoundError, and its subclass json.JSONDecodeError.
FormatErrors == {"ValueError", "JSONDecodeError"}

\* C7: load of a path that does not exist fails with the not-found error, and
\* load of a file that is malformed or lacks the expected structure fails with
\* the format error, never with another error and never with a store.
C7_LoadErrorKinds ==
    (result.op = "load" /\ result.file_path.isStr) =>
        LET file == fs[result.file_path.name]
        IN  /\ file.kind = "missing" => result.status = "FileNotFoundError"
            /\ LacksStructure(file) => result.status \in FormatErrors

\* The paths of a corpus that exist and open, in input order.
Openable(paths) ==
    SelectSeq(paths, LAMBDA p : PdfFile(p).is_file /\ PdfFile(p).opens)

\* The last operation was a build of a batch in which every corpus lists at
\* least one path and some corpus lists a path that is missing or corrupt.
BuildWithBadPath ==
    /\ result.op = "build"
    /\ \A c \in 1..Len(result.files) : result.files[c][1].paths # <<>>
    /\ \E c \in 1..Len(result.files) :
          Openable(result.files[c][1].paths) # result.files[c][1].paths

\* C8: build gives every corpus exactly one FileRecord per input path that
\* exists and opens, in input order; a path that is missing or does not open
\* raises no error and the files after it are still processed.
C8_OneRecordPerOpenedFile ==
    BuildWithBadPath =>
        /\ result.status = "ok"
        /\ Len(store) = Len(result.files)
        /\ \A c \in 1..Len(result.files) :
              [r \in 1..Len(store[c].documents.items) |->
                  store[c].documents.items[r].source.stem]
                  = Openable(result.files[c][1].paths)

\* The raw text units of a document in the generator's resolution, and those
\* of them that are not blank and that the encoder does not fail on.
RECURSIVE Concat(_)
Concat(seqs) == IF seqs = <<>> THEN <<>> ELSE Head(seqs) \o Concat(Tail(seqs))

RawUnits(self, pages) ==
    IF self.resolution = "block" THEN Concat(pages)
    ELSE [i \in 1..Len(pages) |-> PageText(pages[i])]

KeptUnits(self, pages) ==
    SelectSeq(RawUnits(self, pages), LAMBDA u :
        /\ Strip(u) # <<>>
        /\ preprocess_text(Strip(u), TRUE, FALSE, TRUE) \notin self.encoderFails)

\* C9: build completes for every batch and returns one CorpusEntry per input
\* corpus, in order; a text unit the encoder fails on is dropped and the other
\* units of its file are kept.
C9_BuildAlwaysCompletes ==
    (result.op = "build" /\ result.files # <<>>) =>
        /\ result.status = "ok"
        /\ Len(store) = Len(result.files)
        /\ \A c \in 1..Len(result.files) :
              /\ store[c].corpus_name = result.files[c][1].corpus_name
              /\ \A rec \in Range(store[c].documents.items) :
                    Len(rec.contents)
                        = Len(KeptUnits(result.self, PdfFile(rec.source.stem).pages))

C11_NonPositiveArgsRejectedFirst ==
    (result.op = "search" /\ (result.top_k <= 0 \/ result.min_results_length <= 0)) =>
        /\ result.status = "ValueError"
        /\ ~result.encoded
        /\ result.results = <<>>

\* A search with a query string and a non-positive top_k or min_length over a
\* store that holds documents, with an encoder that would have failed, was
\* refused with the invalid-argument error.
C11_Witness ==
    /\ result.op = "search"
    /\ result.query.isStr
    /\ result.query.text # <<>>
    /\ result.top_k <= 0 \/ result.min_results_length <= 0
    /\ ~result.encoderOk
    /\ result.status = "ValueError"
    /\ \E c \in 1..Len(store) : Len(Candidates(store[c])) > 0

\* The results a search call returned for one corpus name.
ResultsIn(results, corpus_name) ==
    SelectSeq(results, LAMBDA h : h.corpus_name = corpus_name)

IsPrefix(a, b) == Len(a) <= Len(b) /\ a = SubSeq(b, 1, Len(a))

\* C12: for a fixed store of distinctly named corpora and a fixed query, a
\* valid search with top_k = k1 and the search with any larger top_k = k2 both
\* select candidates, and per corpus the candidates of the k1 search are a
\* prefix of those of the k2 search, in the same order (hence so are the
\* results, which are the selected candidates that pass the length filter).
C12_TopKPrefixMonotone ==
    (ValidSearch /\ DistinctNames(store)) =>
        \A k2 \in (result.top_k + 1)..(MaxTopK + 1) :
            LET wider == semantic_search(store, result.query, TRUE, k2,
                                         result.min_results_length)
            IN  /\ result.status = "ok"
                /\ wider.status = "ok"
                /\ \A c \in 1..Len(store) :
                      /\ IsPrefix(Selected(store[c], encode(result.query.text),
                                           result.top_k),
                                  Selected(store[c], encode(result.query.text), k2))
                      /\ IsPrefix(ResultsIn(result.results, store[c].corpus_name),
                                  ResultsIn(wider.results, store[c].corpus_name))

\* C13: a search over a store with no corpora, with a non-empty query string
\* that the encoder encodes and positive top_k and min_length, raises no error
\* and returns the empty sequence.
C13_EmptyStoreSearchReturnsEmpty ==
    (result.op = "search" /\ store = <<>>
        /\ result.query.isStr /\ result.query.text # <<>>
        /\ result.top_k > 0 /\ result.min_results_length > 0
        /\ result.encoderOk) =>
        /\ result.status = "ok"
        /\ result.results = <<>>

\* A search with a non-empty query string and positive top_k and min_length
\* over the store with no corpora encoded the query and returned no result.
C13_Witness ==
    /\ result.op = "search"
    /\ store = <<>>
    /\ result.query.isStr
    /\ result.query.text # <<>>
    /\ result.top_k > 0
    /\ result.min_results_length > 0
    /\ result.encoded
    /\ result.status = "ok"
    /\ result.results = <<>>

\* C14: with normalization enabled, every entry that the block-mode and the
\* page-mode processing of a document produce has non-empty content: a text
\* unit whose normalized text is empty, such as a block of backslashes only,
\* produces no entry.
C14_EntriesHaveContent ==
    (result.op \in {"process_blocks", "process_pages"} /\ result.preprocess) =>
        \A d \in Range(result.contents) : d.page_content # <<>>

\* C15: preprocess_text is idempotent: applied with the same options to its
\* own output, it returns that output unchanged, whatever the input text.
C15_PreprocessIdempotent ==
    result.op = "preprocess_text" =>
        preprocess_text(result.out, result.encoding, result.lowercase,
                        result.remove_newlines) = result.out

\* C16: constructing a generator with an encoder instance, a device among
\* cpu, cuda, mps and a resolution among block, page succeeds and the object
\* holds these three values; with an encoder instance and a device or a
\* resolution outside these sets it fails with ValueError.
C16_GeneratorConstructed ==
    (result.op = "new_generator" /\ result.encoder.cls = "SentenceTransformer") =>
        IF result.device \in {"cpu", "cuda", "mps"}
              /\ result.resolution \in {"block", "page"}
        THEN /\ result.status = "ok"
             /\ result.self = [encoder |-> result.encoder, device |-> result.device,
                               resolution |-> result.resolution]
        ELSE result.status = "ValueError"

====
